---- MODULE Spec2Model ----
(***************************************************************************)
(* Model of bevy_ui's focus pass (crates/bevy_ui/src/focus.rs): the system *)
(* focus_ui that recomputes every UI node's Interaction once per frame,    *)
(* driven the way the file's own TestApp drives it (set_cursor_position,   *)
(* set_mouse_clicked, set_mouse_released, set_screen_touched, run_step).   *)
(*                                                                         *)
(* Numbers.  focus_ui works on f32 coordinates and halves the node size    *)
(* (extents = size / 2.0).  The model keeps coordinates as integers and    *)
(* carries every quantity of the hit test multiplied by two, so that the   *)
(* halving is exact: min2 = 2*ui_position - size, max2 = 2*ui_position +   *)
(* size, and the cursor and the clip rectangle are doubled before they are *)
(* compared with them.  NaN and infinities are outside the model.          *)
(*                                                                         *)
(* Option<T> is modelled as a set: None is {} and Some(v) is {v}.          *)
(***************************************************************************)
EXTENDS Integers, Sequences, FiniteSets, TLC

VARIABLES
    nodes,                  \* the queried entities, in the query's iteration order
    interaction,            \* interaction[i]: the Interaction component of nodes[i]
    cursor_position,        \* WindowsDouble.cursor_position : Option<Vec2>
    pressed,                \* Input<MouseButton>.pressed contains Left
    just_pressed,           \* Input<MouseButton>.just_pressed contains Left
    touch_events,           \* Events<TouchInput> not yet read: a set of <<phase, id>>
    touches_just_released,  \* Touches.just_released: the set of touch ids
    pc,                     \* position inside TestApp::run_step: "idle" | "ran"
    prev_interaction,       \* history, while pc = "ran": interaction as it was when
                            \* the pass began (the previous frame's result)
    prev_input,             \* history, recorded under SpecFrames only (None under Spec):
                            \* the input the previous run_step's pass sampled
    ub,                     \* a UniformBuffer<T> or a DynamicUniformBuffer<T>: its fields
    created,                \* RenderDevice: the number of buffers created so far
    queued,                 \* RenderQueue: the write most recently queued, if any
    op,                     \* history: the last operation on ub and its argument
    before,                 \* history: ub as it was before the last operation
    since,                  \* history: the operations between the last two write_buffer
                            \* calls (after a write_buffer) or since the last one
    at_write                \* history: label and usages as they were at the write_buffer
                            \* call before the last one (after a write_buffer) or at the
                            \* last one

focus_vars == <<nodes, interaction, cursor_position, pressed, just_pressed,
                touch_events, touches_just_released, pc, prev_interaction,
                prev_input>>

buffer_vars == <<ub, created, queued, op, before, since, at_write>>

vars == <<focus_vars, buffer_vars>>

----------------------------------------------------------------------------
(* Bounds of the model *)

\* number of UI nodes in the scene
NumNodes == 2


----------------------------------------------------------------------------
(* Values *)

None == {}
Some(v) == {v}
Unwrap(opt) == CHOOSE v \in opt : TRUE
UnwrapOr(opt, default) == IF opt = None THEN default ELSE Unwrap(opt)

\* enum Interaction
Interaction == {"Clicked", "Hovered", "None"}

\* impl Default for Interaction
InteractionDefault == "None"

\* enum FocusPolicy
FocusPolicy == {"Block", "Pass"}

\* touch slots; TestApp::set_screen_touched uses id 0
TouchIds == {0, 1}

Max2(a, b) == IF a >= b THEN a ELSE b
Min2(a, b) == IF a <= b THEN a ELSE b


\* Vec2::max and Vec2::min are component-wise
Vec2_max(a, b) == <<Max2(a[1], b[1]), Max2(a[2], b[2])>>
Vec2_min(a, b) == <<Min2(a[1], b[1]), Min2(a[2], b[2])>>
Twice(v) == <<2 * v[1], 2 * v[2]>>

----------------------------------------------------------------------------
(* The scene: what the layout and the scene graph hand to the pass.  Node   *)
(* centres and cursor coordinates lie in Coords; a node of size 2 centred   *)
(* at 0 covers [-1, 1) and one centred at 1 covers [0, 2), so the cursor    *)
(* can sit on a min edge (0 of [0, 2)) and on a max edge (1 of [-1, 1)).     *)

\* the coordinates a cursor or a node centre takes on either axis
Coords == {0, 1}

\* GlobalTransform.translation[3]; the tests stack nodes at z = 0 and z = 5
Depths == {0, 5}

\* Option<FocusPolicy>
Policies == {None} \cup {Some(p) : p \in FocusPolicy}

\* CalculatedClip.clip: a rectangle [min, max]
Clips == {[min |-> <<1, 1>>, max |-> <<2, 2>>], [min |-> <<0, 0>>, max |-> <<1, 1>>]}

\* nodes of one size on the diagonal, as the tests spawn them: every depth and policy
StackNodes ==
    [translation : {<<c, c, z>> : c \in Coords, z \in Depths},
     size : {<<2, 2>>},
     focus_policy : Policies,
     clip : {None}]

\* a front node of any position, several sizes (full, half, zero width), clipped or not
GeomNodes ==
    [translation : {<<x, y, 5>> : x \in Coords, y \in Coords},
     size : {<<2, 2>>, <<1, 1>>, <<0, 2>>},
     focus_policy : Policies,
     clip : {None} \cup {Some(c) : c \in Clips}]

\* a node behind it that covers every cursor position
BackNodes ==
    [translation : {<<1, 1, 0>>},
     size : {<<2, 2>>},
     focus_policy : {Some(p) : p \in FocusPolicy},
     clip : {None}]

\* the scenes of Spec: stacks of diagonal nodes, and one GeomNode before BackNodes
StackScenes == [1..NumNodes -> StackNodes]
GeomScenes ==
    {s \in [1..NumNodes -> GeomNodes \cup BackNodes] :
        /\ s[1] \in GeomNodes
        /\ \A i \in 2..NumNodes : s[i] \in BackNodes}
Scenes == StackScenes \cup GeomScenes

\* the scenes of SpecFrames, which records the previous frame's input
FrameNodes ==
    [translation : {<<c, c, z>> : c \in Coords, z \in Depths},
     size : {<<2, 2>>},
     focus_policy : {Some(p) : p \in FocusPolicy},
     clip : {None}]
FrameScenes == [1..NumNodes -> FrameNodes]

CursorPositions == {None} \cup {Some(<<x, y>>) : x \in Coords, y \in Coords}

----------------------------------------------------------------------------
(* focus_ui *)

\* mutant: the clip rectangle's min corner is forgotten
min_unclipped(node) ==
    <<2 * node.translation[1] - node.size[1], 2 * node.translation[2] - node.size[2]>>

\* lines 89-97: the visible rectangle's corners (doubled, see the header)
min(node) ==
    LET position == node.translation
        ui_position == <<position[1], position[2]>>
        m == <<2 * ui_position[1] - node.size[1], 2 * ui_position[2] - node.size[2]>>
    IN  IF node.clip = None THEN m ELSE Vec2_max(m, Twice(Unwrap(node.clip).min))

\* mutant: the clip rectangle's max corner is forgotten
max_unclipped(node) ==
    <<2 * node.translation[1] + node.size[1], 2 * node.translation[2] + node.size[2]>>

max(node) ==
    LET position == node.translation
        ui_position == <<position[1], position[2]>>
        m == <<2 * ui_position[1] + node.size[1], 2 * ui_position[2] + node.size[2]>>
    IN  IF node.clip = None THEN m ELSE Vec2_min(m, Twice(Unwrap(node.clip).max))

\* mutant: a closed interval
RangeContains_closed(start, end, x) == start <= x /\ x <= end

\* Range<f32>::contains: start <= x < end
RangeContains(start, end, x) == start <= x /\ x < end

\* mutant: only the x axis is tested
contains_cursor_x_only(node, cursor) ==
    RangeContains(min(node)[1], max(node)[1], 2 * cursor[1])

\* lines 99-100
contains_cursor(node, cursor) ==
    /\ RangeContains(min(node)[1], max(node)[1], 2 * cursor[1])
    /\ RangeContains(min(node)[2], max(node)[2], 2 * cursor[2])

\* lines 85-109: filter_map + collect keeps the query's iteration order
RECURSIVE moused_over(_, _, _)
moused_over(ns, cursor, i) ==
    IF i > Len(ns) THEN <<>>
    ELSE IF contains_cursor(ns[i], cursor)
         THEN <<i>> \o moused_over(ns, cursor, i + 1)
         ELSE moused_over(ns, cursor, i + 1)

\* mutant: the key is z, so the farthest node comes first
SortKey_ascending(ns, i) == ns[i].translation[3]

\* the sort key of line 111: -z
SortKey(ns, i) == 0 - ns[i].translation[3]

\* mutant: an unstable sort that puts an element before those of equal key
RECURSIVE InsertByKey_unstable(_, _, _)
InsertByKey_unstable(ns, sorted, e) ==
    IF sorted = <<>> THEN <<e>>
    ELSE IF SortKey(ns, Head(sorted)) < SortKey(ns, e)
         THEN <<Head(sorted)>> \o InsertByKey_unstable(ns, Tail(sorted), e)
         ELSE <<e>> \o sorted

\* slice::sort_by_key is stable: an element goes behind every element whose key
\* is not greater than its own
RECURSIVE InsertByKey(_, _, _)
InsertByKey(ns, sorted, e) ==
    IF sorted = <<>> THEN <<e>>
    ELSE IF SortKey(ns, Head(sorted)) <= SortKey(ns, e)
         THEN <<Head(sorted)>> \o InsertByKey(ns, Tail(sorted), e)
         ELSE <<e>> \o sorted

RECURSIVE sort_by_key(_, _)
sort_by_key(ns, list) ==
    IF list = <<>> THEN <<>>
    ELSE InsertByKey(ns, sort_by_key(ns, SubSeq(list, 1, Len(list) - 1)), list[Len(list)])

\* lines 85-111
moused_over_z_sorted_nodes(ns, cursor) == sort_by_key(ns, moused_over(ns, cursor, 1))

\* mutants: a release on any touch slot counts; a held button does not count;
\* a press that was already released does not count
mouse_clicked_any_touch(jp, p, tjr) == jp \/ p \/ tjr # {}
mouse_clicked_edge_only(jp, p, tjr) == jp \/ (0 \in tjr)
mouse_clicked_held_only(jp, p, tjr) == p \/ (0 \in tjr)

\* lines 113-115
mouse_clicked(jp, p, tjr) == jp \/ p \/ (0 \in tjr)

\* lines 118-122
Assigned(clicked) == IF clicked THEN "Clicked" ELSE "Hovered"

\* mutant: an absent policy lets the interaction pass
PolicyOf_default_pass(node) == UnwrapOr(node.focus_policy, "Pass")

\* line 124
PolicyOf(node) == UnwrapOr(node.focus_policy, "Block")

\* mutant: no break at a Block node
RECURSIVE Walk_no_break(_, _, _, _)
Walk_no_break(ns, list, inter, clicked) ==
    IF list = <<>> THEN inter
    ELSE Walk_no_break(ns, Tail(list),
                       [inter EXCEPT ![Head(list)] = Assigned(clicked)], clicked)

\* lines 117-130: the walk over the sorted hits
RECURSIVE Walk(_, _, _, _)
Walk(ns, list, inter, clicked) ==
    IF list = <<>> THEN inter
    ELSE LET i == Head(list)
             written == [inter EXCEPT ![i] = Assigned(clicked)]
         IN  IF PolicyOf(ns[i]) = "Block"
             THEN written
             ELSE Walk(ns, Tail(list), written, clicked)

\* mutant: the reset is missing
set_all_interactions_to_none_skipped(inter) == inter

\* mutant: the reset leaves Clicked alone
set_all_interactions_to_none_but_clicked(inter) ==
    [i \in DOMAIN inter |-> IF inter[i] = "Clicked" THEN "Clicked" ELSE "None"]

\* lines 133-137
set_all_interactions_to_none(inter) == [i \in DOMAIN inter |-> "None"]

\* lines 85-130: hit test, sort and walk, once the cursor is known
hit_test_and_walk(ns, reset, cursor, jp, p, tjr) ==
    Walk(ns, moused_over_z_sorted_nodes(ns, cursor), reset, mouse_clicked(jp, p, tjr))

\* mutant: the early return for a missing cursor comes before the reset
focus_ui_return_before_reset(ns, inter, cursor, jp, p, tjr) ==
    IF cursor = None THEN inter
    ELSE hit_test_and_walk(ns, set_all_interactions_to_none(inter), Unwrap(cursor),
                           jp, p, tjr)

\* mutant: a node that was Clicked stays Clicked while the cursor is on it
focus_ui_latched(ns, inter, cursor, jp, p, tjr) ==
    LET reset == set_all_interactions_to_none(inter)
        result == IF cursor = None THEN reset
                  ELSE hit_test_and_walk(ns, reset, Unwrap(cursor), jp, p, tjr)
    IN  [i \in DOMAIN result |->
            IF result[i] = "Hovered" /\ inter[i] = "Clicked" THEN "Clicked" ELSE result[i]]

\* lines 72-131
focus_ui(ns, inter, cursor, jp, p, tjr) ==
    LET reset == set_all_interactions_to_none(inter)
    IN  IF cursor = None THEN reset
        ELSE hit_test_and_walk(ns, reset, Unwrap(cursor), jp, p, tjr)

(* The writes of one pass, in program order: <<node, value, writer>> *)

\* mutant: the reset skips a node that is None already
reset_writes_skip_none(inter) ==
    SelectSeq([i \in 1..Len(inter) |-> <<i, "None", "reset">>],
              LAMBDA w : inter[w[1]] # "None")

\* lines 133-137: one write per node of the query
reset_writes(inter) == [i \in 1..Len(inter) |-> <<i, "None", "reset">>]

\* lines 117-130: one write per node of the list, up to the break
RECURSIVE walk_writes(_, _, _)
walk_writes(ns, list, clicked) ==
    IF list = <<>> THEN <<>>
    ELSE <<<<Head(list), Assigned(clicked), "walker">>>> \o
         (IF PolicyOf(ns[Head(list)]) = "Block"
          THEN <<>>
          ELSE walk_writes(ns, Tail(list), clicked))

\* lines 72-131
focus_ui_writes(ns, inter, cursor, jp, p, tjr) ==
    IF cursor = None THEN reset_writes(inter)
    ELSE reset_writes(inter) \o
         walk_writes(ns, moused_over_z_sorted_nodes(ns, Unwrap(cursor)),
                     mouse_clicked(jp, p, tjr))

----------------------------------------------------------------------------
(* The collaborators the pass reads: Input<MouseButton>, Touches *)

\* Touches::update followed by process_touch_event for every unread event:
\* just_released is cleared and then holds the ids of the Ended events
touch_screen_input_system(events) == {e[2] : e \in {ev \in events : ev[1] = "Ended"}}

----------------------------------------------------------------------------
(* State machine *)

\* the input a pass samples: lines 80 and 113-115
SampledInput ==
    [cursor_position |-> cursor_position,
     pressed |-> pressed,
     just_pressed |-> just_pressed,
     touch_just_released |-> 0 \in touches_just_released]

\* before the first frame nothing was under the cursor and nothing was pressed
NoInput ==
    [cursor_position |-> None, pressed |-> FALSE, just_pressed |-> FALSE,
     touch_just_released |-> FALSE]

InitInput ==
    /\ interaction = [i \in 1..NumNodes |-> InteractionDefault]
    /\ cursor_position = None
    /\ pressed = FALSE
    /\ just_pressed = FALSE
    /\ touch_events = {}
    /\ touches_just_released = {}
    /\ pc = "idle"
    /\ prev_interaction = interaction

\* the focus tests create no uniform buffer
NoBuffer ==
    /\ ub = {}
    /\ created = 0
    /\ queued = {}
    /\ op = <<"none">>
    /\ before = {}
    /\ since = {}
    /\ at_write = {}

Init ==
    /\ nodes \in Scenes
    /\ InitInput
    /\ prev_input = None
    /\ NoBuffer

InitFrames ==
    /\ nodes \in FrameScenes
    /\ InitInput
    /\ prev_input = Some(NoInput)
    /\ NoBuffer

\* TestApp::set_cursor_position
SetCursorPosition ==
    /\ UNCHANGED buffer_vars
    /\ pc = "idle"
    /\ \E c \in CursorPositions : cursor_position' = c
    /\ UNCHANGED <<nodes, interaction, pressed, just_pressed,
                   touch_events, touches_just_released, pc, prev_interaction,
          prev_input>>

\* TestApp::set_mouse_clicked: Input::press(Left)
SetMouseClicked ==
    /\ UNCHANGED buffer_vars
    /\ pc = "idle"
    /\ just_pressed' = IF ~pressed THEN TRUE ELSE just_pressed
    /\ pressed' = TRUE
    /\ UNCHANGED <<nodes, interaction, cursor_position,
                   touch_events, touches_just_released, pc, prev_interaction,
          prev_input>>

\* TestApp::set_mouse_released: Input::release(Left)
SetMouseReleased ==
    /\ UNCHANGED buffer_vars
    /\ pc = "idle"
    /\ pressed' = FALSE
    /\ UNCHANGED <<nodes, interaction, cursor_position, just_pressed,
                   touch_events, touches_just_released, pc, prev_interaction,
          prev_input>>

\* TestApp::set_screen_touched, for any touch id: sends TouchInput{phase: Ended, id}
SetScreenTouched ==
    /\ UNCHANGED buffer_vars
    /\ pc = "idle"
    /\ \E id \in TouchIds : touch_events' = touch_events \cup {<<"Ended", id>>}
    /\ UNCHANGED <<nodes, interaction, cursor_position, pressed, just_pressed,
                   touches_just_released, pc, prev_interaction,
                   prev_input>>

\* TestApp::run_step, first statement: schedule.run_once runs
\* touch_screen_input_system and then focus_ui
RunSchedule ==
    /\ UNCHANGED buffer_vars
    /\ pc = "idle"
    /\ touches_just_released' = touch_screen_input_system(touch_events)
    /\ touch_events' = {}
    /\ prev_interaction' = interaction
    /\ interaction' = focus_ui(nodes, interaction, cursor_position, just_pressed,
                               pressed, touches_just_released')
    /\ pc' = "ran"
    /\ UNCHANGED <<nodes, cursor_position, pressed, just_pressed, prev_input>>

\* TestApp::run_step, second statement: Input::clear
ClearInput ==
    /\ UNCHANGED buffer_vars
    /\ pc = "ran"
    /\ just_pressed' = FALSE
    /\ pc' = "idle"
    /\ prev_interaction' = interaction
    /\ prev_input' = IF prev_input = None THEN None ELSE Some(SampledInput)
    /\ UNCHANGED <<nodes, interaction, cursor_position, pressed,
                   touch_events, touches_just_released>>

Next ==
    \/ SetCursorPosition
    \/ SetMouseClicked
    \/ SetMouseReleased
    \/ SetScreenTouched
    \/ RunSchedule
    \/ ClearInput

Spec == Init /\ [][Next]_vars

SpecFrames == InitFrames /\ [][Next]_vars

----------------------------------------------------------------------------
(* Vocabulary of the properties, stated on the scene and the input and not *)
(* through the operators of focus_ui                                       *)

\* a pass has just run: the input is still as the pass sampled it
AfterPass == pc = "ran"

HasCursor == cursor_position # None
Cursor == Unwrap(cursor_position)

Z(i) == nodes[i].translation[3]

\* an absent focus policy blocks
Blocking(i) == nodes[i].focus_policy # Some("Pass")

\* position - size/2 <= c < position + size/2 on both axes, each side doubled
InBoundingBox(i, c) ==
    \A axis \in 1..2 :
        /\ 2 * nodes[i].translation[axis] - nodes[i].size[axis] <= 2 * c[axis]
        /\ 2 * c[axis] < 2 * nodes[i].translation[axis] + nodes[i].size[axis]

HasClip(i) == nodes[i].clip # None

\* clip.min <= c < clip.max on both axes; no clip rectangle excludes nothing
InClip(i, c) ==
    HasClip(i) =>
        \A axis \in 1..2 :
            /\ Unwrap(nodes[i].clip).min[axis] <= c[axis]
            /\ c[axis] < Unwrap(nodes[i].clip).max[axis]

\* the visible rectangle (bounding box intersected with the clip) contains the cursor
HitCandidate(i) == HasCursor /\ InBoundingBox(i, Cursor) /\ InClip(i, Cursor)

\* j is processed before i: larger z first, equal z in iteration order
Before(j, i) == Z(j) > Z(i) \/ (Z(j) = Z(i) /\ j < i)

\* the walker gets to i: i is hit and no blocking hit precedes it
Reached(i) ==
    /\ HitCandidate(i)
    /\ \A j \in DOMAIN nodes : HitCandidate(j) /\ Blocking(j) => ~Before(j, i)

ClickEdge == just_pressed \/ pressed \/ 0 \in touches_just_released

NoClickInput == ~just_pressed /\ ~pressed /\ 0 \notin touches_just_released

\* the input the previous frame's pass sampled (SpecFrames)
PrevFrame == Unwrap(prev_input)

\* the cursor is where it was in the previous frame
CursorStays == HasCursor /\ PrevFrame.cursor_position = cursor_position

----------------------------------------------------------------------------
(* Properties *)

\* C1: after a pass that found no cursor position every node's Interaction is
\* None, whatever the mouse and touch input and the earlier Interaction values.
C1_NoCursorNoInteraction ==
    AfterPass /\ ~HasCursor => \A i \in DOMAIN nodes : interaction[i] = "None"

\* the cursor disappeared while the button is held over a node that was Clicked
C1_Witness ==
    /\ AfterPass /\ ~HasCursor
    /\ pressed /\ 0 \in touches_just_released
    /\ \E i \in DOMAIN nodes : prev_interaction[i] = "Clicked" /\ interaction[i] = "None"

\* C2: when a blocking hit candidate is Hovered or Clicked after a pass, every hit
\* candidate of strictly smaller z is None; at most one blocking node is not None.
C2_BlockingOcclusion ==
    AfterPass /\ HasCursor =>
        /\ \A i, j \in DOMAIN nodes :
              ( /\ HitCandidate(i) /\ Blocking(i) /\ interaction[i] # "None"
                /\ HitCandidate(j) /\ Z(j) < Z(i) )
              => interaction[j] = "None"
        /\ Cardinality({i \in DOMAIN nodes : Blocking(i) /\ interaction[i] # "None"}) <= 1

\* a clicked blocking node in front of a hit node that stays None
C2_Witness ==
    /\ AfterPass
    /\ \E i, j \in DOMAIN nodes :
          /\ HitCandidate(i) /\ Blocking(i) /\ interaction[i] = "Clicked"
          /\ HitCandidate(j) /\ Z(j) < Z(i) /\ interaction[j] = "None"

\* C3: after a pass with a cursor the nodes that are not None are exactly the hit
\* candidates up to and including the first blocking one in descending-z order,
\* and they all hold the same value.
C3_PassThrough ==
    AfterPass /\ HasCursor =>
        /\ \A i \in DOMAIN nodes : interaction[i] # "None" <=> Reached(i)
        /\ \A i, j \in DOMAIN nodes :
              interaction[i] # "None" /\ interaction[j] # "None"
              => interaction[i] = interaction[j]

\* a Pass node in front forwards the click to the blocking node behind it
C3_Witness ==
    /\ AfterPass
    /\ \E i, j \in DOMAIN nodes :
          /\ ~Blocking(i) /\ Blocking(j) /\ Z(i) > Z(j)
          /\ interaction[i] = "Clicked" /\ interaction[j] = "Clicked"

\* C4: after a pass with a cursor every node the walker reached is Clicked if the
\* left button was just pressed or is held or touch slot 0 was released this
\* frame, and Hovered otherwise; a release on another slot does not click.
C4_ClickEdge ==
    AfterPass /\ HasCursor =>
        \A i \in DOMAIN nodes :
            Reached(i) => interaction[i] = (IF ClickEdge THEN "Clicked" ELSE "Hovered")

\* only touch slot 1 was released, and the node under the cursor is Hovered
C4_Witness ==
    /\ AfterPass
    /\ touches_just_released = {1} /\ ~pressed /\ ~just_pressed
    /\ \E i \in DOMAIN nodes : Reached(i) /\ interaction[i] = "Hovered"

\* C5: a node that was Hovered or Clicked when the pass began and that the walker
\* does not reach in this pass is None after it, also while the button is held.
C5_NoStaleState ==
    AfterPass =>
        \A i \in DOMAIN nodes :
            prev_interaction[i] # "None" /\ ~Reached(i) => interaction[i] = "None"

\* the button is held, the cursor is still on the node that was Clicked, and a
\* nearer blocking node now takes the click
C5_Witness ==
    /\ AfterPass /\ pressed
    /\ \E i, j \in DOMAIN nodes :
          /\ prev_interaction[i] = "Clicked" /\ HitCandidate(i) /\ interaction[i] = "None"
          /\ Before(j, i) /\ Blocking(j) /\ interaction[j] = "Clicked"

\* C6: the button was held in the previous frame and is released in this one, with
\* no new press and no release of touch slot 0, and the cursor stayed on a node
\* the walker reaches: the node was Clicked after the previous pass and is
\* Hovered after this one.
C6_ReleaseEdgeTiming ==
    AfterPass /\ prev_input # None =>
        \A i \in DOMAIN nodes :
            PrevFrame.pressed /\ NoClickInput /\ CursorStays /\ Reached(i)
            => prev_interaction[i] = "Clicked" /\ interaction[i] = "Hovered"

C6_Witness ==
    /\ AfterPass /\ prev_input # None
    /\ PrevFrame.pressed /\ NoClickInput /\ CursorStays
    /\ \E i \in DOMAIN nodes :
          Reached(i) /\ prev_interaction[i] = "Clicked" /\ interaction[i] = "Hovered"

\* C7: while the button stays held (held in the previous frame, still held, not
\* pressed anew) and the cursor stays on a node the walker reaches, the node is
\* Clicked after the previous pass and after this one.
C7_HeldButton ==
    AfterPass /\ prev_input # None =>
        \A i \in DOMAIN nodes :
            PrevFrame.pressed /\ pressed /\ ~just_pressed /\ CursorStays /\ Reached(i)
            => prev_interaction[i] = "Clicked" /\ interaction[i] = "Clicked"

\* the second frame of a held button, with no touch input in either frame
C7_Witness ==
    /\ AfterPass /\ prev_input # None
    /\ PrevFrame.pressed /\ ~PrevFrame.just_pressed /\ ~PrevFrame.touch_just_released
    /\ pressed /\ ~just_pressed /\ touches_just_released = {} /\ CursorStays
    /\ \E i \in DOMAIN nodes :
          Reached(i) /\ prev_interaction[i] = "Clicked" /\ interaction[i] = "Clicked"

\* C8: a button pressed and released before the same pass (just pressed, not held)
\* clicks the node the walker reaches in that pass, and with no click input in the
\* next frame and the cursor unmoved the node is Hovered after the next pass.
C8_PressAndReleaseInOneFrame ==
    AfterPass /\ prev_input # None =>
        \A i \in DOMAIN nodes :
            /\ just_pressed /\ ~pressed /\ Reached(i) => interaction[i] = "Clicked"
            /\ ( /\ PrevFrame.just_pressed /\ ~PrevFrame.pressed
                 /\ NoClickInput /\ CursorStays /\ Reached(i) )
               => prev_interaction[i] = "Clicked" /\ interaction[i] = "Hovered"

\* the frame after a press and release inside one frame, without any touch input
C8_Witness ==
    /\ AfterPass /\ prev_input # None
    /\ PrevFrame.just_pressed /\ ~PrevFrame.pressed /\ ~PrevFrame.touch_just_released
    /\ NoClickInput /\ CursorStays
    /\ \E i \in DOMAIN nodes :
          Reached(i) /\ prev_interaction[i] = "Clicked" /\ interaction[i] = "Hovered"

\* C9: the hit test is half-open on both axes of the visible rectangle: the pass
\* treats a node as containing the cursor exactly if min <= cursor < max on x and
\* on y, with the bounding box at position +/- size/2; so every node that is not
\* None contains the cursor in that sense and every such node that nothing blocks
\* is not None.
C9_HalfOpenHitTest ==
    HasCursor =>
        \A i \in DOMAIN nodes :
            /\ contains_cursor(nodes[i], Cursor) <=> HitCandidate(i)
            /\ AfterPass => (interaction[i] # "None" => HitCandidate(i))
            /\ AfterPass => (Reached(i) => interaction[i] # "None")

\* the cursor lies on the min x edge of a node that is hit and on the max y edge
\* of a node that is not
C9_Witness ==
    /\ AfterPass /\ HasCursor
    /\ \E i, j \in DOMAIN nodes :
          /\ 2 * Cursor[1] = 2 * nodes[i].translation[1] - nodes[i].size[1]
          /\ interaction[i] # "None"
          /\ 2 * Cursor[2] = 2 * nodes[j].translation[2] + nodes[j].size[2]
          /\ 2 * nodes[j].translation[1] - nodes[j].size[1] <= 2 * Cursor[1]
          /\ 2 * Cursor[1] < 2 * nodes[j].translation[1] + nodes[j].size[1]
          /\ ~HasClip(j)
          /\ interaction[j] = "None"

\* the scene without node i, and what a pass over it leaves in its nodes
Without(i) == [k \in 1..(Len(nodes) - 1) |-> IF k < i THEN nodes[k] ELSE nodes[k + 1]]
PassWithout(i) ==
    focus_ui(Without(i), [k \in 1..(Len(nodes) - 1) |-> "None"], cursor_position,
             just_pressed, pressed, touches_just_released)

\* C10: a node whose bounding box contains the cursor and whose clip rectangle does
\* not is None after the pass, and every other node ends as it would in the scene
\* without that node: it neither blocks nor forwards.
C10_ClipIntersection ==
    AfterPass /\ HasCursor =>
        \A i \in DOMAIN nodes :
            InBoundingBox(i, Cursor) /\ ~InClip(i, Cursor) =>
                /\ interaction[i] = "None"
                /\ \A j \in DOMAIN nodes \ {i} :
                      interaction[j] = PassWithout(i)[IF j < i THEN j ELSE j - 1]

\* a blocking front node clipped away from the cursor, and the node behind it clicked
C10_Witness ==
    /\ AfterPass /\ HasCursor
    /\ \E i, j \in DOMAIN nodes :
          /\ InBoundingBox(i, Cursor) /\ ~InClip(i, Cursor) /\ Blocking(i)
          /\ Z(i) > Z(j)
          /\ interaction[i] = "None" /\ interaction[j] = "Clicked"

----------------------------------------------------------------------------
(* Properties of the hit test, the depth order and the pass as a whole *)

\* the visible rectangle's corners on one axis, doubled
VisibleMin(i, axis) ==
    LET b == 2 * nodes[i].translation[axis] - nodes[i].size[axis]
    IN  IF HasClip(i) /\ 2 * Unwrap(nodes[i].clip).min[axis] > b
        THEN 2 * Unwrap(nodes[i].clip).min[axis] ELSE b
VisibleMax(i, axis) ==
    LET b == 2 * nodes[i].translation[axis] + nodes[i].size[axis]
    IN  IF HasClip(i) /\ 2 * Unwrap(nodes[i].clip).max[axis] < b
        THEN 2 * Unwrap(nodes[i].clip).max[axis] ELSE b

\* the visible rectangle is empty or inverted on some axis
Degenerate(i) == \E axis \in 1..2 : VisibleMin(i, axis) >= VisibleMax(i, axis)

\* C11: a node whose visible rectangle is empty or inverted on an axis (zero size
\* included) contains no cursor position for the hit test and is None after
\* every pass.
C11_DegenerateNeverHit ==
    AfterPass =>
        \A i \in DOMAIN nodes :
            Degenerate(i) =>
                /\ \A x \in Coords, y \in Coords : ~contains_cursor(nodes[i], <<x, y>>)
                /\ interaction[i] = "None"

\* the button is held over the bounding box of a node that its clip leaves empty
C11_Witness ==
    /\ AfterPass /\ HasCursor /\ pressed
    /\ \E i \in DOMAIN nodes :
          /\ Degenerate(i) /\ nodes[i].size = <<2, 2>>
          /\ InBoundingBox(i, Cursor) /\ interaction[i] = "None"

\* the list of hits as the pass sorts it
SortedHits == moused_over_z_sorted_nodes(nodes, Cursor)

\* C12: the hits are processed in descending z and, for equal z, in the query's
\* iteration order; of two blocking hits of equal z the later one is None, and the
\* earlier one is not None unless a blocking hit that is nearer, or of equal z and
\* earlier in the query, precedes it.
C12_DepthOrder ==
    AfterPass /\ HasCursor =>
        /\ LET hits == SortedHits
           IN  \A a, b \in DOMAIN hits : a < b => Before(hits[a], hits[b])
        /\ \A i, j \in DOMAIN nodes :
              ( /\ i < j /\ Z(i) = Z(j)
                /\ HitCandidate(i) /\ Blocking(i) /\ HitCandidate(j) /\ Blocking(j) )
              => /\ interaction[j] = "None"
                 /\ (\A k \in DOMAIN nodes :
                        HitCandidate(k) /\ Blocking(k) /\ k # i =>
                            Z(k) < Z(i) \/ (Z(k) = Z(i) /\ i < k))
                    => interaction[i] # "None"

\* two blocking hits of equal z: the first of the query is Clicked, the second None
C12_Witness ==
    /\ AfterPass /\ HasCursor
    /\ \E i, j \in DOMAIN nodes :
          /\ i < j /\ Z(i) = Z(j)
          /\ HitCandidate(i) /\ Blocking(i) /\ HitCandidate(j) /\ Blocking(j)
          /\ interaction[i] = "Clicked" /\ interaction[j] = "None"

\* the scene with every absent focus policy replaced by an explicit Block
WithExplicitBlock ==
    [i \in DOMAIN nodes |->
        IF nodes[i].focus_policy = None
        THEN [nodes[i] EXCEPT !.focus_policy = Some("Block")]
        ELSE nodes[i]]

\* C13: a pass leaves in every node what it leaves in the scene whose absent focus
\* policies are replaced by FocusPolicy::Block.
C13_AbsentPolicyIsBlock ==
    AfterPass =>
        interaction = focus_ui(WithExplicitBlock, prev_interaction, cursor_position,
                               just_pressed, pressed, touches_just_released)

\* a clicked node without a focus policy keeps a hit node behind it at None
C13_Witness ==
    /\ AfterPass /\ HasCursor
    /\ \E i, j \in DOMAIN nodes :
          /\ nodes[i].focus_policy = None /\ interaction[i] = "Clicked"
          /\ HitCandidate(j) /\ Before(i, j) /\ interaction[j] = "None"

\* the Interaction values a pass may find: those the pass just left, and every
\* value held by all nodes at once
HeldBefore == {interaction} \cup {[i \in DOMAIN nodes |-> v] : v \in Interaction}

\* C14: a second pass over the result of a pass, with the same nodes, cursor and
\* click input, changes nothing, and the result is the same whichever Interaction
\* value all nodes held before; and a frame whose sampled input equals the
\* previous frame's ends with the previous frame's Interaction values.
C14_Idempotent ==
    AfterPass =>
        /\ \A held \in HeldBefore :
              focus_ui(nodes, held, cursor_position, just_pressed, pressed,
                       touches_just_released) = interaction
        /\ prev_input = Some(SampledInput) => interaction = prev_interaction

\* the second of two frames with the same input, with one node Clicked and one None
C14_Witness ==
    /\ AfterPass /\ prev_input = Some(SampledInput)
    /\ \E i, j \in DOMAIN nodes :
          /\ interaction[i] = "Clicked" /\ prev_interaction[i] = "Clicked"
          /\ interaction[j] = "None" /\ prev_interaction[j] = "None"

\* the writes of the pass that has just run
Writes ==
    focus_ui_writes(nodes, prev_interaction, cursor_position, just_pressed, pressed,
                    touches_just_released)
WritesIn(ws, i, writer) == {k \in DOMAIN ws : ws[k][1] = i /\ ws[k][3] = writer}
WritesOf(i, writer) == WritesIn(Writes, i, writer)

\* the value a node holds after the writes
RECURSIVE Replay(_, _)
Replay(inter, ws) ==
    IF ws = <<>> THEN inter
    ELSE Replay([inter EXCEPT ![Head(ws)[1]] = Head(ws)[2]], Tail(ws))

\* C15: in one pass every node is written exactly once by the reset, to None, and
\* at most once by the walker, to Hovered or Clicked, after its reset write; these
\* writes are the whole effect of the pass.
C15_WriteOnce ==
    AfterPass =>
        LET ws == Writes
        IN  /\ \A i \in DOMAIN nodes :
                  LET resets == WritesIn(ws, i, "reset")
                      walks == WritesIn(ws, i, "walker")
                  IN  /\ Cardinality(resets) = 1
                      /\ Cardinality(walks) <= 1
                      /\ \A r \in resets, w \in walks : r < w
            /\ \A k \in DOMAIN ws :
                  /\ ws[k][3] = "reset" => ws[k][2] = "None"
                  /\ ws[k][3] = "walker" => ws[k][2] \in {"Hovered", "Clicked"}
            /\ Replay(prev_interaction, ws) = interaction

\* a pass wrote two nodes twice (reset, then walker) and started from a node at None
C15_Witness ==
    /\ AfterPass
    /\ Cardinality({i \in DOMAIN nodes : WritesOf(i, "walker") # {}}) >= 2
    /\ \E i \in DOMAIN nodes : prev_interaction[i] = "None"

\* the hit test and the walk for a cursor position that is not the current one
HitAt(i, c) == InBoundingBox(i, c) /\ InClip(i, c)
ReachedAt(i, c) ==
    /\ HitAt(i, c)
    /\ \A j \in DOMAIN nodes : HitAt(j, c) /\ Blocking(j) => ~Before(j, i)

\* C16: a nearer blocking node that does not contain the cursor leaves a farther
\* node that the walker reaches Hovered or Clicked; and when the cursor was at such
\* a place in the previous frame and is inside both nodes now, the farther node
\* was not None, is None now, and the nearer node, if the walker reaches it, has
\* the interaction.
C16_OcclusionNeedsContainment ==
    AfterPass /\ prev_input # None /\ HasCursor =>
        \A i, j \in DOMAIN nodes :
            Blocking(i) /\ Z(i) > Z(j) =>
                /\ ~HitCandidate(i) /\ Reached(j) => interaction[j] # "None"
                /\ ( /\ PrevFrame.cursor_position # None
                     /\ ~HitAt(i, Unwrap(PrevFrame.cursor_position))
                     /\ ReachedAt(j, Unwrap(PrevFrame.cursor_position))
                     /\ HitCandidate(i) /\ HitCandidate(j) /\ Reached(i) )
                   => /\ prev_interaction[j] # "None"
                      /\ interaction[i] # "None"
                      /\ interaction[j] = "None"

\* hovered the farther node beside the nearer one, then clicked where both overlap
C16_Witness ==
    /\ AfterPass /\ prev_input # None /\ HasCursor
    /\ PrevFrame.cursor_position # None
    /\ \E i, j \in DOMAIN nodes :
          /\ Blocking(i) /\ Z(i) > Z(j)
          /\ ~HitAt(i, Unwrap(PrevFrame.cursor_position))
          /\ prev_interaction[j] = "Hovered" /\ prev_interaction[i] = "None"
          /\ interaction[i] = "Clicked" /\ interaction[j] = "None"

----------------------------------------------------------------------------
(* bevy_render: UniformBuffer<T> and DynamicUniformBuffer<T>

   T is a 32-bit unsigned integer; its encoding is its four little-endian bytes,
   so every length below is a multiple of wgpu's COPY_BUFFER_ALIGNMENT and the
   size of a created buffer is the length of its contents.  BufferUsages is a
   set of flag names.  A Buffer is the record of its creation: a fresh id, the
   descriptor's label and usage, and the contents.  Of the RenderQueue only the
   write queued last is kept. *)

\* largest number of buffers the RenderDevice creates
MaxBuffers == 2

\* largest number of values pushed into a DynamicUniformBuffer before a clear
MaxPushes == 1

\* the alignment given to DynamicUniformBuffer::new_with_alignment
Alignment == 8

Values == {0, 258}

Labels == {None, Some("a")}

\* BufferUsages::COPY_DST | BufferUsages::UNIFORM
DefaultUsages == {"COPY_DST", "UNIFORM"}

\* the arguments of add_usages: a flag the buffer has already, and a new one
UsageArgs == {{"UNIFORM"}, {"STORAGE"}}

\* encase's WriteInto for u32
Encode(v) == <<v % 256, (v \div 256) % 256, (v \div 65536) % 256, v \div 16777216>>

RoundUp(n, a) == ((n + a - 1) \div a) * a

\* encase's Writer over a Vec<u8>: the vector is enlarged to hold the bytes, which
\* overwrite what is at the offset
WriteAt(scratch, at, bytes) ==
    [k \in 1..Max2(Len(scratch), at + Len(bytes)) |->
        IF at < k /\ k <= at + Len(bytes) THEN bytes[k - at]
        ELSE IF k <= Len(scratch) THEN scratch[k]
        ELSE 0]

\* RenderDevice::create_buffer_with_data
create_buffer_with_data(id, label, usage, contents) ==
    [id |-> id, label |-> label, usage |-> usage,
     size |-> Len(contents), contents |-> contents]

\* lines 42-53; Default (lines 55-66) is From(T::default())
UniformBuffer_from(value) ==
    [kind |-> "UniformBuffer",
     value |-> value,
     scratch |-> <<>>,
     buffer |-> None,
     label |-> None,
     changed |-> FALSE,
     buffer_usage |-> DefaultUsages]

\* lines 169-192
DynamicUniformBuffer_default ==
    [kind |-> "DynamicUniformBuffer",
     scratch |-> <<>>,
     offset |-> 0,
     buffer |-> None,
     label |-> None,
     changed |-> FALSE,
     buffer_usage |-> DefaultUsages]

\* lines 82-84, and an assignment through get_mut (lines 90-92)
UniformBuffer_set(self, value) == [self EXCEPT !.value = value]

\* mutant: the flag follows the comparison, so an equal label clears it
UniformBuffer_set_label_clears(self, label) ==
    [self EXCEPT !.changed = (label # self.label), !.label = label]

\* lines 94-102
UniformBuffer_set_label(self, label) ==
    [self EXCEPT !.changed = IF label # self.label THEN TRUE ELSE @,
                 !.label = label]

\* mutant: the flags are replaced, not added
UniformBuffer_add_usages_replace(self, usage) ==
    [self EXCEPT !.buffer_usage = usage, !.changed = TRUE]

\* lines 113-116
UniformBuffer_add_usages(self, usage) ==
    [self EXCEPT !.buffer_usage = @ \cup usage, !.changed = TRUE]

\* mutant: the value is not encoded into scratch again
UniformBuffer_write_buffer_stale(self, device, queue) ==
    IF self.changed \/ self.buffer = None
    THEN [self |-> [self EXCEPT
                       !.buffer = Some(create_buffer_with_data(
                                    device + 1, self.label, self.buffer_usage,
                                    self.scratch)),
                       !.changed = FALSE],
          device |-> device + 1,
          queue |-> queue]
    ELSE [self |-> self,
          device |-> device,
          queue |-> Some([buffer |-> Unwrap(self.buffer).id, offset |-> 0,
                          data |-> self.scratch])]

\* mutant: a buffer is created only when there is none; the changed flag is not read
UniformBuffer_write_buffer_ignores_changed(self, device, queue) ==
    LET scratch == WriteAt(self.scratch, 0, Encode(self.value))
    IN  IF self.buffer = None
        THEN [self |-> [self EXCEPT
                           !.scratch = scratch,
                           !.buffer = Some(create_buffer_with_data(
                                        device + 1, self.label, self.buffer_usage,
                                        scratch)),
                           !.changed = FALSE],
              device |-> device + 1,
              queue |-> queue]
        ELSE [self |-> [self EXCEPT !.scratch = scratch],
              device |-> device,
              queue |-> Some([buffer |-> Unwrap(self.buffer).id, offset |-> 0,
                              data |-> scratch])]

\* lines 123-136; the result is the struct, the device's count of buffers and the
\* queue's last write
UniformBuffer_write_buffer(self, device, queue) ==
    LET scratch == WriteAt(self.scratch, 0, Encode(self.value))
    IN  IF self.changed \/ self.buffer = None
        THEN [self |-> [self EXCEPT
                           !.scratch = scratch,
                           !.buffer = Some(create_buffer_with_data(
                                        device + 1, self.label, self.buffer_usage,
                                        scratch)),
                           !.changed = FALSE],
              device |-> device + 1,
              queue |-> queue]
        ELSE [self |-> [self EXCEPT !.scratch = scratch],
              device |-> device,
              queue |-> Some([buffer |-> Unwrap(self.buffer).id, offset |-> 0,
                              data |-> scratch])]

\* lines 215-217: the value is written at the wrapper's offset, which then moves on
\* by the value's size rounded up to the alignment
DynamicUniformBuffer_push(self, value) ==
    [self EXCEPT !.scratch = WriteAt(@, self.offset, Encode(value)),
                 !.offset = @ + RoundUp(Len(Encode(value)), Alignment)]

\* lines 219-227
DynamicUniformBuffer_set_label(self, label) ==
    [self EXCEPT !.changed = IF label # self.label THEN TRUE ELSE @,
                 !.label = label]

\* lines 238-241
DynamicUniformBuffer_add_usages(self, usage) ==
    [self EXCEPT !.buffer_usage = @ \cup usage, !.changed = TRUE]

\* lines 249-263
DynamicUniformBuffer_write_buffer(self, device, queue) ==
    LET capacity == IF self.buffer = None THEN 0 ELSE Unwrap(self.buffer).size
        size == Len(self.scratch)
    IN  IF capacity < size \/ self.changed
        THEN [self |-> [self EXCEPT
                           !.buffer = Some(create_buffer_with_data(
                                        device + 1, self.label, self.buffer_usage,
                                        self.scratch)),
                           !.changed = FALSE],
              device |-> device + 1,
              queue |-> queue]
        ELSE IF self.buffer # None
        THEN [self |-> self,
              device |-> device,
              queue |-> Some([buffer |-> Unwrap(self.buffer).id, offset |-> 0,
                              data |-> self.scratch])]
        ELSE [self |-> self, device |-> device, queue |-> queue]

\* lines 266-269
DynamicUniformBuffer_clear(self) == [self EXCEPT !.scratch = <<>>, !.offset = 0]

----------------------------------------------------------------------------
(* The caller of a buffer: any sequence of calls on one buffer *)

IsUniform == ub.kind = "UniformBuffer"
IsDynamic == ub.kind = "DynamicUniformBuffer"

\* the history variables after the call ev
Record(ev) ==
    /\ op' = ev
    /\ before' = ub
    /\ since' = (IF op[1] = "write_buffer" THEN {} ELSE since)
                \cup (IF ev[1] = "write_buffer" THEN {} ELSE {ev})
    /\ at_write' = IF op[1] = "write_buffer"
                   THEN Some([label |-> ub.label, usage |-> ub.buffer_usage])
                   ELSE at_write

InitBuffers ==
    /\ nodes = <<>>
    /\ interaction = <<>>
    /\ cursor_position = None
    /\ pressed = FALSE
    /\ just_pressed = FALSE
    /\ touch_events = {}
    /\ touches_just_released = {}
    /\ pc = "idle"
    /\ prev_interaction = <<>>
    /\ prev_input = None
    /\ ub \in {UniformBuffer_from(v) : v \in Values} \cup {DynamicUniformBuffer_default}
    /\ created = 0
    /\ queued = None
    /\ op = <<"new">>
    /\ before = ub
    /\ since = {}
    /\ at_write = None

UniformBufferSet ==
    /\ IsUniform
    /\ \E v \in Values : ub' = UniformBuffer_set(ub, v)
    /\ Record(<<"set">>)
    /\ UNCHANGED <<focus_vars, created, queued>>

UniformBufferSetLabel ==
    /\ IsUniform
    /\ \E l \in Labels :
          /\ ub' = UniformBuffer_set_label(ub, l)
          /\ Record(<<"set_label", l>>)
    /\ UNCHANGED <<focus_vars, created, queued>>

UniformBufferAddUsages ==
    /\ IsUniform
    /\ \E u \in UsageArgs :
          /\ ub' = UniformBuffer_add_usages(ub, u)
          /\ Record(<<"add_usages", u>>)
    /\ UNCHANGED <<focus_vars, created, queued>>

UniformBufferWriteBuffer ==
    /\ IsUniform
    /\ LET r == UniformBuffer_write_buffer(ub, created, queued)
       IN  /\ r.device <= MaxBuffers
           /\ ub' = r.self
           /\ created' = r.device
           /\ queued' = r.queue
    /\ Record(<<"write_buffer">>)
    /\ UNCHANGED focus_vars

DynamicUniformBufferPush ==
    /\ IsDynamic
    /\ ub.offset < MaxPushes * Alignment
    /\ \E v \in Values : ub' = DynamicUniformBuffer_push(ub, v)
    /\ Record(<<"push">>)
    /\ UNCHANGED <<focus_vars, created, queued>>

DynamicUniformBufferSetLabel ==
    /\ IsDynamic
    /\ \E l \in Labels :
          /\ ub' = DynamicUniformBuffer_set_label(ub, l)
          /\ Record(<<"set_label", l>>)
    /\ UNCHANGED <<focus_vars, created, queued>>

DynamicUniformBufferAddUsages ==
    /\ IsDynamic
    /\ \E u \in UsageArgs :
          /\ ub' = DynamicUniformBuffer_add_usages(ub, u)
          /\ Record(<<"add_usages", u>>)
    /\ UNCHANGED <<focus_vars, created, queued>>

DynamicUniformBufferWriteBuffer ==
    /\ IsDynamic
    /\ LET r == DynamicUniformBuffer_write_buffer(ub, created, queued)
       IN  /\ r.device <= MaxBuffers
           /\ ub' = r.self
           /\ created' = r.device
           /\ queued' = r.queue
    /\ Record(<<"write_buffer">>)
    /\ UNCHANGED focus_vars

DynamicUniformBufferClear ==
    /\ IsDynamic
    /\ ub' = DynamicUniformBuffer_clear(ub)
    /\ Record(<<"clear">>)
    /\ UNCHANGED <<focus_vars, created, queued>>

NextBuffers ==
    \/ UniformBufferSet
    \/ UniformBufferSetLabel
    \/ UniformBufferAddUsages
    \/ UniformBufferWriteBuffer
    \/ DynamicUniformBufferPush
    \/ DynamicUniformBufferSetLabel
    \/ DynamicUniformBufferAddUsages
    \/ DynamicUniformBufferWriteBuffer
    \/ DynamicUniformBufferClear

SpecBuffers == InitBuffers /\ [][NextBuffers]_vars

----------------------------------------------------------------------------
(* Properties of the uniform buffers *)

\* the last call was write_buffer, on a buffer of the given kind
AfterWrite(kind) == op[1] = "write_buffer" /\ ub.kind = kind

\* the buffer the struct holds was created by the last call
NewBuffer ==
    /\ ub.buffer # None
    /\ ub.buffer # before.buffer
    /\ Unwrap(ub.buffer).id = created

\* the last call kept the buffer and queued the bytes at offset 0
KeptAndQueued(bytes) ==
    /\ ub.buffer = before.buffer
    /\ queued = Some([buffer |-> Unwrap(ub.buffer).id, offset |-> 0, data |-> bytes])

\* the buffer holds the bytes from its creation, or a write of them is queued
HoldsOrHasQueued(bytes) ==
    /\ ub.buffer # None
    /\ \/ NewBuffer /\ Unwrap(ub.buffer).contents = bytes
       \/ KeptAndQueued(bytes)

\* label and usages are what they were at the write_buffer call before the last
DescriptorAsAtLastWrite ==
    at_write = Some([label |-> before.label, usage |-> before.buffer_usage])

C18_BufferAfterEveryWrite ==
    AfterWrite("DynamicUniformBuffer") =>
        /\ before.buffer = None => NewBuffer
        /\ ( /\ before.buffer # None
             /\ Unwrap(before.buffer).size < Len(before.scratch) ) => NewBuffer
        /\ ub.buffer # None

\* C19: buffer_usage contains COPY_DST and UNIFORM, and contains the usages of
\* every earlier point: those before the last call, those at the previous
\* write_buffer, and those the held buffer was created with.
C19_UsagesOnlyGrow ==
    /\ {"COPY_DST", "UNIFORM"} \subseteq ub.buffer_usage
    /\ before.buffer_usage \subseteq ub.buffer_usage
    /\ \A w \in at_write : w.usage \subseteq ub.buffer_usage
    /\ \A b \in ub.buffer : b.usage \subseteq ub.buffer_usage
    /\ op[1] = "add_usages" => ub.buffer_usage = before.buffer_usage \cup op[2]

\* add_usages with a flag the buffer has, after a new flag was added and written
C19_Witness ==
    /\ op = <<"add_usages", {"UNIFORM"}>>
    /\ ub.buffer_usage = {"COPY_DST", "UNIFORM", "STORAGE"}
    /\ \E b \in ub.buffer : b.usage = ub.buffer_usage

\* C20: set_label sets changed exactly if its label differs from the stored one
\* and never clears it; a UniformBuffer::write_buffer that follows only set and
\* set_label calls with the label of the previous write_buffer keeps the buffer,
\* and one that follows a set_label call with another label creates a buffer,
\* also when the label was restored in between.
C20_SetLabelMarksChange ==
    /\ op[1] = "set_label" =>
          /\ ub.label = op[2]
          /\ ub.changed <=> (before.changed \/ op[2] # before.label)
          /\ ub.buffer = before.buffer
    /\ AfterWrite("UniformBuffer") /\ before.buffer # None =>
          \A w \in at_write :
              /\ since \subseteq {<<"set">>, <<"set_label", w.label>>} =>
                    ub.buffer = before.buffer
              /\ (\E l \in Labels : l # w.label /\ <<"set_label", l>> \in since) =>
                    NewBuffer /\ Unwrap(ub.buffer).label = ub.label

\* the label was changed and restored between two write_buffer calls, and the
\* second one created a buffer with the label of the first
C20_Witness ==
    /\ AfterWrite("UniformBuffer")
    /\ since = {<<"set_label", Some("a")>>, <<"set_label", None>>}
    /\ at_write = Some([label |-> ub.label, usage |-> ub.buffer_usage])
    /\ NewBuffer /\ before.buffer # None
    /\ Unwrap(ub.buffer).label = Unwrap(before.buffer).label

\* the held buffer was created with the label and the usages the struct holds
BufferMatchesDescriptor ==
    \A b \in ub.buffer : b.label = ub.label /\ b.usage = ub.buffer_usage

\* C21: after every UniformBuffer::write_buffer a buffer exists, changed is false
\* and the buffer was created with the label and the usages the struct holds; after
\* every DynamicUniformBuffer::write_buffer changed is false and the buffer, if
\* there is one, was created with the label and the usages the struct holds.
C21_BufferMatchesDescriptor ==
    /\ AfterWrite("UniformBuffer") =>
          ub.buffer # None /\ ~ub.changed /\ BufferMatchesDescriptor
    /\ AfterWrite("DynamicUniformBuffer") /\ ub.buffer # None =>
          ~ub.changed /\ BufferMatchesDescriptor

\* a write_buffer after set_label and add_usages replaced a buffer by one with
\* the new label and the new usages
C21_Witness ==
    /\ AfterWrite("UniformBuffer")
    /\ <<"set_label", Some("a")>> \in since /\ <<"add_usages", {"STORAGE"}>> \in since
    /\ before.buffer # None /\ NewBuffer
    /\ Unwrap(ub.buffer).label = Some("a") /\ Unwrap(before.buffer).label = None
    /\ "STORAGE" \in Unwrap(ub.buffer).usage /\ "STORAGE" \notin Unwrap(before.buffer).usage

====
